---- MODULE Spec2Model ----
(***************************************************************************)
(* Stardust Drifter: the simulation core of src/unnamed/part_000, lines    *)
(* 485-1549 (the variant with the spatial grid), as a state machine.       *)
(*                                                                         *)
(* One action per event handler of the page: the frame callback gameLoop,  *)
(* the pointer and key handlers, the level-transition setTimeout callback  *)
(* and init() (restart button / resize).  Each action is the whole         *)
(* handler, every function it calls included.                              *)
(*                                                                         *)
(* Numbers.  The code computes in IEEE doubles; the model computes on a    *)
(* lattice of 1/UnitsPerPixel pixel.  Every length, position and velocity  *)
(* of the model is in lattice units.  Math.random() is a choice from small *)
(* sets of lattice values inside the ranges the code draws from.           *)
(***************************************************************************)
EXTENDS Integers, Sequences, FiniteSets, TLC

(* ------------------------- program constants -------------------------- *)
BASE_HEIGHT == 1080
PLAYER_RADIUS == 20
PLAYER_LAUNCH_POWER_DIVISOR == 20
PLAYER_MAX_LAUNCH_POWER == 10
PLANET_MIN_RADIUS == 20
PLANET_MAX_RADIUS == 50
\* GRAVITY = 0.5 = 1 / GRAVITY_DEN
GRAVITY_DEN == 2
COMET_START_LEVEL == 3
COMET_SPEED == 2
COMET_RADIUS == 15
STAR_RADIUS == 10
STAR_SCORE == 100
STATIC_STAR_COUNT == 100
BASE_PLANET_COUNT == 3
PLANET_COUNT_PER_LEVEL == 2
BASE_SCORE_THRESHOLD == 1000
\* SCORE_THRESHOLD_MULTIPLIER = 1.5 = MULTIPLIER_NUM / MULTIPLIER_DEN
MULTIPLIER_NUM == 3
MULTIPLIER_DEN == 2
MAX_COLLISION_DISTANCE == 200
COLLISION_CHECK_FREQUENCY == 1
MAX_RETRIES == 3
\* radius of the central planet, generatePlanetsForLevel: 40 * scale
CENTRAL_PLANET_RADIUS == 40
\* floor of the grid cell size, resizeCanvas: Math.max(..., 100)
MIN_CELL_SIZE == 100

(* ----------------------------- the viewport --------------------------- *)
\* window.innerWidth and window.innerHeight as read by resizeCanvas(); the
\* height equals BASE_HEIGHT, so that scale is the integer 1.
canvasWidth == 400
canvasHeight == 1080
scale == canvasHeight \div BASE_HEIGHT

\* Lattice resolution: the planet drift (Math.random() - 0.5) * 0.5 * scale
\* ranges over [-1/4, 1/4) pixel per tick, so a quarter pixel is the coarsest
\* lattice on which a planet can move at all.
UnitsPerPixel == 4
Px(n) == n * UnitsPerPixel
W == Px(canvasWidth)
H == Px(canvasHeight)

(* ------------------------------ bounds -------------------------------- *)
\* ticks stop once the score has reached MaxScore
MaxScore == 1010
\* no collectable star is spawned while MaxStars of them exist
MaxStars == 1
\* no tick runs while MaxTimers level-transition timers are pending
MaxTimers == 2
\* In the levels with comets no tick runs once MaxLevel is reached.
MaxLevel == 4
\* image loads that fail at least once, in one run
MaxFailing == 1
\* calls of ensureNonCriticalAssetsLoaded() whose image loads are under way
\* at any one time
MaxLazyCalls == 1

(* ----------------------------- arithmetic ----------------------------- *)
Abs(n) == IF n < 0 THEN -n ELSE n
Max(a, b) == IF a > b THEN a ELSE b
Min(a, b) == IF a < b THEN a ELSE b
Sgn(n) == IF n < 0 THEN -1 ELSE IF n > 0 THEN 1 ELSE 0
\* Math.ceil(a / b) for a >= 0, b > 0
CeilDiv(a, b) == (a + b - 1) \div b
RECURSIVE Pow(_, _)
Pow(b, e) == IF e = 0 THEN 1 ELSE b * Pow(b, e - 1)

(* ------------------------- helper functions --------------------------- *)
getDistanceSquared(entity1, entity2) ==
    LET dx == entity1.x - entity2.x
        dy == entity1.y - entity2.y
    IN  dx * dx + dy * dy

areColliding(entity1, entity2) ==
    LET radiusSum == entity1.radius + entity2.radius
        distanceSquared == getDistanceSquared(entity1, entity2)
    IN  distanceSquared < radiusSum * radiusSum

\* Mutation: the pre-filter compares with the first entity's radius only.
areAABBColliding_ownRadius(entity1, entity2) ==
    /\ Abs(entity1.x - entity2.x) < entity1.radius
    /\ Abs(entity1.y - entity2.y) < entity1.radius

areAABBColliding(entity1, entity2) ==
    /\ Abs(entity1.x - entity2.x) < entity1.radius + entity2.radius
    /\ Abs(entity1.y - entity2.y) < entity1.radius + entity2.radius

areCollidingOptimized(entity1, entity2) ==
    IF ~areAABBColliding(entity1, entity2)
    THEN FALSE
    ELSE areColliding(entity1, entity2)

updateEntityWithBounce(entity, maxWidth, maxHeight) ==
    LET x1 == entity.x + entity.dx
        y1 == entity.y + entity.dy
    IN  [entity EXCEPT
            !.x = x1,
            !.y = y1,
            !.dx = IF x1 < entity.radius \/ x1 > maxWidth - entity.radius
                   THEN -entity.dx ELSE entity.dx,
            !.dy = IF y1 < entity.radius \/ y1 > maxHeight - entity.radius
                   THEN -entity.dy ELSE entity.dy]

isOffScreen(entity, maxWidth, maxHeight) ==
    \/ entity.x < -entity.radius
    \/ entity.x > maxWidth + entity.radius
    \/ entity.y < -entity.radius
    \/ entity.y > maxHeight + entity.radius

(* --------------------------- the spatial grid ------------------------- *)
\* resizeCanvas: cellSize = Math.max(PLANET_MAX_RADIUS * 2 * scale, 100)
cellSize == Px(Max(PLANET_MAX_RADIUS * 2 * scale, MIN_CELL_SIZE))
cols == CeilDiv(W, cellSize)
rows == CeilDiv(H, cellSize)

\* SpatialGrid.insert: the cells an entity is pushed to.  \div is the floor
\* division, as Math.floor(.../cellSize) is.
insert(entity) ==
    LET minX == Max(0, (entity.x - entity.radius) \div cellSize)
        maxX == Min(cols - 1, (entity.x + entity.radius) \div cellSize)
        minY == Max(0, (entity.y - entity.radius) \div cellSize)
        maxY == Min(rows - 1, (entity.y + entity.radius) \div cellSize)
    IN  {x + y * cols : x \in minX .. maxX, y \in minY .. maxY}

\* An entity in the grid is a reference to an element of one of the lists
\* of game: <<list name, index>>.
Refs(g) ==
    ({"planets"} \X DOMAIN g.planets)
        \cup ({"comets"} \X DOMAIN g.comets)
        \cup ({"collectableStars"} \X DOMAIN g.collectableStars)
Deref(g, ref) == g[ref[1]][ref[2]]

\* updateSpatialGrid: clear(), then insert every planet, comet and star.
\* The grid is rebuilt in every checkCollisions before it is read
\* (frameCount % COLLISION_CHECK_FREQUENCY = 0 for a frequency of 1), so it
\* is a value of the tick and not a variable.
updateSpatialGrid(g) ==
    [c \in 0 .. cols * rows - 1 |->
        {ref \in Refs(g) : c \in insert(Deref(g, ref))}]

\* SpatialGrid.getNearbyEntities: the union of the cells the entity covers.
getNearbyEntities(grid, entity) ==
    LET minX == Max(0, (entity.x - entity.radius) \div cellSize)
        maxX == Min(cols - 1, (entity.x + entity.radius) \div cellSize)
        minY == Max(0, (entity.y - entity.radius) \div cellSize)
        maxY == Min(rows - 1, (entity.y + entity.radius) \div cellSize)
    IN  UNION {grid[x + y * cols] : x \in minX .. maxX, y \in minY .. maxY}

(* ------------------------------ the state ----------------------------- *)
VARIABLES
    game,        \* the game object: player, planets, stars, comets,
                 \* collectableStars, score, currentLevel
    gameState,   \* "START", "LEVEL_TRANSITION", "PLAYING" or "GAME_OVER"
    isDragging,
    dragStart,   \* <<dragStartX, dragStartY>>, <<>> while still undefined
    timers,      \* the pending setTimeout callbacks of startLevel, oldest
                 \* first; an entry is TRUE iff the most recent call of
                 \* startLevel scheduled it
    rafQueue,    \* the pending requestAnimationFrame(gameLoop) callbacks,
                 \* oldest first; an entry is TRUE iff its request id is the
                 \* one held in animationFrameId
    images,      \* the images object: <<>> while the variable is undefined,
                 \* else <<the set of the keys it holds>>
    imageLoads,  \* the Image objects whose load or error event, or whose
                 \* retry timer, is still to come
    assetState,  \* assetState.loaded, assetState.loading and
                 \* assetState.failed, as sets of sources
    initTimer,   \* TRUE iff the setTimeout of loadImages().then is pending
    failedLoads, \* history: how many loads have had an error event
    timerOutcome \* history: what the handler that ran last did, if it was the
                 \* setTimeout callback of startLevel: "started" (it set
                 \* PLAYING) or "ignored" (it found another state than
                 \* LEVEL_TRANSITION); "none" after any other handler

vars == <<game, gameState, isDragging, dragStart, timers, rafQueue, images,
          imageLoads, assetState, initTimer, failedLoads, timerOutcome>>

\* what the asset loader writes
assetVars == <<images, imageLoads, assetState, initTimer, failedLoads>>

\* What the functions called by a handler read and write, as one record.
Machine == [game |-> game, gameState |-> gameState,
            timers |-> timers, rafQueue |-> rafQueue]

MachineBecomes(m) ==
    /\ game' = m.game
    /\ gameState' = m.gameState
    /\ timers' = m.timers
    /\ rafQueue' = m.rafQueue
    /\ timerOutcome' = "none"

\* a handler that runs once every image is in the images object
Becomes(m) ==
    /\ MachineBecomes(m)
    /\ UNCHANGED assetVars

(* ------------------ requestAnimationFrame / setTimeout ---------------- *)
RemoveAt(s, i) == SubSeq(s, 1, i - 1) \o SubSeq(s, i + 1, Len(s))

\* animationFrameId = requestAnimationFrame(gameLoop): the new request is the
\* one animationFrameId names, every older one no longer is.
requestAnimationFrame(q) == Append([i \in DOMAIN q |-> FALSE], TRUE)

\* cancelAnimationFrame(animationFrameId): drops the request of that id, if
\* it is still pending.
cancelAnimationFrame(q) == SelectSeq(q, LAMBDA latest : ~latest)

\* setTimeout(callback, LEVEL_TRANSITION_DELAY) in startLevel
setTimeout(q) == Append([i \in DOMAIN q |-> FALSE], TRUE)

(* ------------------------------ entities ------------------------------ *)
SpawnX == W \div 2
SpawnY == H \div 3

\* The values Math.random() stands for in createRandomPlanet and
\* generatePlanetsForLevel, in lattice units:
\*   x in [0, W), y in [0, H), radius in [PLANET_MIN_RADIUS, PLANET_MAX_RADIUS)
\*   pixels, dx and dy in [-1/4, 1/4) pixel.  The visual type index of a
\*   planet is drawn too and only read by the renderer; it is left out.
\* FarPlanet lies inside the left wall margin and drifts, HazardPlanet stands
\* on the line the player is launched along.
FarPlanet == [x |-> Px(10), y |-> Px(1000), radius |-> Px(20), dx |-> -1, dy |-> 0]
HazardPlanet == [x |-> Px(389), y |-> Px(360), radius |-> Px(20), dx |-> 0, dy |-> 0]
PlanetDraws(n) ==
    { [i \in 1 .. n |-> FarPlanet],
      [i \in 1 .. n |-> IF i = 1 THEN HazardPlanet ELSE FarPlanet] }
\* the drift drawn for the central planet
CentralDrift == [dx |-> 0, dy |-> 0]

\* generateComet: edge 3 (left): x = 0, dx in [0, speed), dy in
\* [-speed/2, speed/2); edge 1 (right): x = W, dx in (-speed, 0].
CometDraws ==
    { [x |-> 0, y |-> Px(10), dx |-> 0, dy |-> -Px(1)],
      [x |-> W, y |-> SpawnY, dx |-> -7, dy |-> 0] }

\* spawnCollectableStars: Math.random() < STAR_SPAWN_RATE or not, and the
\* position drawn: x in [0, W), y in [0, H).
StarSamples ==
    { [x |-> SpawnX, y |-> SpawnY], [x |-> W - Px(2), y |-> SpawnY] }
StarDraws(g) ==
    {<<>>} \cup (IF Len(g.collectableStars) < MaxStars
                 THEN {<<s>> : s \in StarSamples} ELSE {})

\* pointer positions (clientX, clientY), in pixels
MouseDownPoints == { <<300, 360>> }
MouseUpPoints == { <<330, 360>> }

createRandomPlanet(u) ==
    [x |-> u.x, y |-> u.y, radius |-> u.radius, dx |-> u.dx, dy |-> u.dy]

\* Mutation: a level has PLANET_COUNT_PER_LEVEL planets more.
NumPlanets_perLevel(level) == BASE_PLANET_COUNT + level * PLANET_COUNT_PER_LEVEL

NumPlanets(level) == BASE_PLANET_COUNT + (level - 1) * PLANET_COUNT_PER_LEVEL

generatePlanetsForLevel(g, pd) ==
    LET central == [x |-> W \div 2, y |-> H \div 2,
                    radius |-> Px(CENTRAL_PLANET_RADIUS * scale),
                    dx |-> CentralDrift.dx, dy |-> CentralDrift.dy]
        numPlanets == NumPlanets(g.currentLevel)
    IN  [g EXCEPT !.planets =
            <<central>> \o [i \in 1 .. numPlanets |-> createRandomPlanet(pd[i])]]

generateComet(g, cd) ==
    [g EXCEPT !.comets =
        Append(@, [x |-> cd.x, y |-> cd.y, dx |-> cd.dx, dy |-> cd.dy,
                   radius |-> Px(COMET_RADIUS * scale)])]

(* --------------------------- core functions --------------------------- *)
\* the player object built by init()
NewPlayer ==
    [x |-> SpawnX, y |-> SpawnY, dx |-> 0, dy |-> 0,
     radius |-> Px(PLAYER_RADIUS * scale), isMoving |-> FALSE]

\* init() up to its call of gameLoop(): game.stars is emptied and refilled
\* by generateStaticStars(); the decorative stars are kept as their number.
initGame ==
    [player |-> NewPlayer, planets |-> <<>>, stars |-> 0 + STATIC_STAR_COUNT,
     comets |-> <<>>, collectableStars |-> <<>>, score |-> 0, currentLevel |-> 1]

\* Mutation: startLevel() schedules no timer.
startLevel_noTimer(m, pd, cd) ==
    LET g1 == [m.game EXCEPT !.player.x = SpawnX, !.player.y = SpawnY,
                             !.player.dx = 0, !.player.dy = 0,
                             !.player.isMoving = FALSE]
        g2 == generatePlanetsForLevel(g1, pd)
        g3 == IF g2.currentLevel >= COMET_START_LEVEL
              THEN generateComet(g2, cd) ELSE g2
    IN  [m EXCEPT !.game = g3, !.gameState = "LEVEL_TRANSITION"]

\* Mutation: startLevel() starts the next level with the score at 0.
startLevel_resetScore(m, pd, cd) ==
    LET g1 == [m.game EXCEPT !.player.x = SpawnX, !.player.y = SpawnY,
                             !.player.dx = 0, !.player.dy = 0,
                             !.player.isMoving = FALSE, !.score = 0]
        g2 == generatePlanetsForLevel(g1, pd)
        g3 == IF g2.currentLevel >= COMET_START_LEVEL
              THEN generateComet(g2, cd) ELSE g2
    IN  [m EXCEPT !.game = g3, !.gameState = "LEVEL_TRANSITION",
                  !.timers = setTimeout(m.timers)]

\* Mutation: startLevel() generates two comets, whatever the level is.
startLevel_alwaysComet(m, pd, cd) ==
    LET g0 == [m.game EXCEPT !.player.x = SpawnX, !.player.y = SpawnY,
                             !.player.dx = 0, !.player.dy = 0,
                             !.player.isMoving = FALSE]
        g1 == generatePlanetsForLevel(g0, pd)
        g2 == generateComet(generateComet(g1, cd), cd)
    IN  [m EXCEPT !.gameState = "LEVEL_TRANSITION",
                  !.game = g2,
                  !.timers = setTimeout(m.timers)]

startLevel(m, pd, cd) ==
    LET g0 == [m.game EXCEPT !.player.x = SpawnX, !.player.y = SpawnY,
                             !.player.dx = 0, !.player.dy = 0,
                             !.player.isMoving = FALSE]
        g1 == generatePlanetsForLevel(g0, pd)
        g2 == IF g1.currentLevel >= COMET_START_LEVEL
              THEN generateComet(g1, cd) ELSE g1
    IN  [m EXCEPT !.gameState = "LEVEL_TRANSITION",
                  !.game = g2,
                  !.timers = setTimeout(m.timers)]

\* Mutation: an input in LEVEL_TRANSITION generates the planets again.
startGame_regenerate(m, pd) ==
    IF m.gameState \in {"START", "LEVEL_TRANSITION"}
    THEN [m EXCEPT !.gameState = "PLAYING",
                   !.game = generatePlanetsForLevel(m.game, pd)]
    ELSE m

startGame(m, pd) ==
    IF m.gameState = "START"
    THEN [m EXCEPT !.gameState = "PLAYING",
                   !.game = generatePlanetsForLevel(m.game, pd)]
    ELSE IF m.gameState = "LEVEL_TRANSITION"
    THEN [m EXCEPT !.gameState = "PLAYING"]
    ELSE m

gameOver(m) ==
    [m EXCEPT !.gameState = "GAME_OVER",
              !.rafQueue = cancelAnimationFrame(m.rafQueue)]

(* -------------------------- game logic (update) ----------------------- *)
updatePlanets(g) ==
    [g EXCEPT !.planets =
        [i \in DOMAIN g.planets |-> updateEntityWithBounce(g.planets[i], W, H)]]

\* game.comets.forEach((c, index) => {...; game.comets.splice(index, 1)}):
\* forEach visits the indices 0 .. n-1 of the length n it started with and
\* skips an index the list no longer has; after a splice the comet that
\* followed the removed one sits at the index just visited.  (k is 1-based.)
RECURSIVE forEachComet(_, _, _)
forEachComet(comets, k, n) ==
    IF k > n THEN comets
    ELSE IF k > Len(comets) THEN forEachComet(comets, k + 1, n)
    ELSE LET c == [comets[k] EXCEPT !.x = @ + comets[k].dx,
                                    !.y = @ + comets[k].dy]
         IN  IF isOffScreen(c, W, H)
             THEN forEachComet(RemoveAt(comets, k), k + 1, n)
             ELSE forEachComet([comets EXCEPT ![k] = c], k + 1, n)

updateComets(g) ==
    [g EXCEPT !.comets = forEachComet(g.comets, 1, Len(g.comets))]

\* One planet's term of totalGravityX (of totalGravityY with dy for dx):
\*   dx * (GRAVITY * p.radius / distSq) * scale   pixels,
\* on the lattice, rounded toward zero; distSq > 1 is in square pixels.
gravityTerm(delta, radius, distSq) ==
    IF distSq > UnitsPerPixel * UnitsPerPixel
    THEN Sgn(delta) * ((UnitsPerPixel * radius * Abs(delta) * scale)
                          \div (GRAVITY_DEN * distSq))
    ELSE 0

RECURSIVE totalGravity(_, _, _)
totalGravity(planets, player, axis) ==
    IF planets = <<>> THEN 0
    ELSE LET p == Head(planets)
             dx == p.x - player.x
             dy == p.y - player.y
             distSq == dx * dx + dy * dy
         IN  gravityTerm(IF axis = "x" THEN dx ELSE dy, p.radius, distSq)
                + totalGravity(Tail(planets), player, axis)

\* Mutation: updatePlayer() does not test isMoving.
updatePlayer_always(g) ==
    LET dx1 == g.player.dx + totalGravity(g.planets, g.player, "x")
        dy1 == g.player.dy + totalGravity(g.planets, g.player, "y")
    IN  [g EXCEPT !.player.dx = dx1, !.player.dy = dy1,
                  !.player.x = @ + dx1, !.player.y = @ + dy1,
                  !.score = @ + 1]

updatePlayer(g) ==
    IF ~g.player.isMoving THEN g
    ELSE LET dx1 == g.player.dx + totalGravity(g.planets, g.player, "x")
             dy1 == g.player.dy + totalGravity(g.planets, g.player, "y")
         IN  [g EXCEPT !.player.dx = dx1, !.player.dy = dy1,
                       !.player.x = @ + dx1, !.player.y = @ + dy1,
                       !.score = @ + 1]

\* sd is <<>> when Math.random() >= STAR_SPAWN_RATE, else <<the position>>
spawnCollectableStars(g, sd) ==
    IF sd = <<>> THEN g
    ELSE [g EXCEPT !.collectableStars =
            Append(@, [x |-> sd[1].x, y |-> sd[1].y,
                       radius |-> Px(STAR_RADIUS * scale)])]

\* checkPlayerCollisionWithDangerousEntities: the plain scan
checkPlayerCollisionWithDangerousEntities(g, list) ==
    \E i \in DOMAIN g[list] : areCollidingOptimized(g.player, g[list][i])

\* checkPlayerCollisionWithDangerousEntitiesOptimized: TRUE iff it calls
\* gameOver().  The spatialGrid exists from resizeCanvas() on.
checkPlayerCollisionWithDangerousEntitiesOptimized(g, grid, list) ==
    IF Len(g[list]) = 0
    THEN checkPlayerCollisionWithDangerousEntities(g, list)
    ELSE LET nearbyEntities == getNearbyEntities(grid, g.player)
             maxDistance == Px(MAX_COLLISION_DISTANCE * scale)
             relevantEntities ==
                {ref \in nearbyEntities :
                    /\ ref[1] = list
                    /\ getDistanceSquared(g.player, Deref(g, ref))
                          < maxDistance * maxDistance}
         IN  \E ref \in relevantEntities :
                areCollidingOptimized(g.player, Deref(g, ref))

\* checkPlayerCollisionWithEntities(game.collectableStars, ...) with the
\* callback of checkCollisions: from the last index down, a star the player
\* overlaps adds STAR_SCORE and is spliced out.
RECURSIVE collectStars(_, _)
\* Mutation: the scan ends at the first star the player overlaps.
collectStars_firstOnly(g, i) ==
    IF i < 1 THEN g
    ELSE IF areCollidingOptimized(g.player, g.collectableStars[i])
         THEN [g EXCEPT !.score = @ + STAR_SCORE,
                        !.collectableStars = RemoveAt(@, i)]
         ELSE collectStars(g, i - 1)

\* Mutation: a collected star is left in the list.
collectStars_keep(g, i) ==
    IF i < 1 THEN g
    ELSE IF areCollidingOptimized(g.player, g.collectableStars[i])
         THEN collectStars([g EXCEPT !.score = @ + STAR_SCORE], i - 1)
         ELSE collectStars(g, i - 1)

collectStars(g, i) ==
    IF i < 1 THEN g
    ELSE IF areCollidingOptimized(g.player, g.collectableStars[i])
         THEN collectStars([g EXCEPT !.score = @ + STAR_SCORE,
                                     !.collectableStars = RemoveAt(@, i)], i - 1)
         ELSE collectStars(g, i - 1)

checkCollisions(m) ==
    LET g == m.game
        grid == updateSpatialGrid(g)
    IN  IF checkPlayerCollisionWithDangerousEntitiesOptimized(g, grid, "planets")
        THEN gameOver(m)
        ELSE IF checkPlayerCollisionWithDangerousEntitiesOptimized(g, grid, "comets")
        THEN gameOver(m)
        ELSE LET g1 == collectStars(g, Len(g.collectableStars))
                 p == g1.player
                 m1 == [m EXCEPT !.game = g1]
             IN  IF p.x < 0 \/ p.x > W \/ p.y < 0 \/ p.y > H
                 THEN gameOver(m1)
                 ELSE m1

\* Mutation: the score has to exceed the required score.
reachedRequiredScore_strict(score, level) ==
    score * Pow(MULTIPLIER_DEN, level - 1)
        > BASE_SCORE_THRESHOLD * Pow(MULTIPLIER_NUM, level - 1)

\* Mutation: every level requires the score of level 1.
reachedRequiredScore_flat(score, level) ==
    score >= BASE_SCORE_THRESHOLD

\* score >= BASE_SCORE_THRESHOLD * Math.pow(SCORE_THRESHOLD_MULTIPLIER, level - 1),
\* both sides multiplied by MULTIPLIER_DEN^(level - 1)
reachedRequiredScore(score, level) ==
    score * Pow(MULTIPLIER_DEN, level - 1)
        >= BASE_SCORE_THRESHOLD * Pow(MULTIPLIER_NUM, level - 1)

checkLevelCompletion(m, pd, cd) ==
    IF reachedRequiredScore(m.game.score, m.game.currentLevel)
    THEN startLevel([m EXCEPT !.game.currentLevel = @ + 1], pd, cd)
    ELSE m

\* rnd: what Math.random() yields in this call: rnd.star for
\* spawnCollectableStars, rnd.planets and rnd.comet for a startLevel()
update(m, rnd) ==
    IF m.gameState # "PLAYING" THEN m
    ELSE LET g1 == updatePlanets(m.game)
             g2 == updateComets(g1)
             g3 == updatePlayer(g2)
             g4 == spawnCollectableStars(g3, rnd.star)
             m5 == checkCollisions([m EXCEPT !.game = g4])
         IN  checkLevelCompletion(m5, rnd.planets, rnd.comet)

\* gameLoop(), called with the request that invoked it already taken off
\* the queue (or called directly by init())
gameLoopBody(m, rnd) ==
    IF m.gameState = "GAME_OVER" THEN m
    ELSE LET m1 == IF m.gameState = "PLAYING" THEN update(m, rnd) ELSE m
         IN  [m1 EXCEPT !.rafQueue = requestAnimationFrame(m1.rafQueue)]

(* -------------------------------- launch ------------------------------ *)
\* handleMouseUp: angle = atan2(dy, dx), power = min(hypot(dx, dy) /
\* (PLAYER_LAUNCH_POWER_DIVISOR * scale), PLAYER_MAX_LAUNCH_POWER * scale),
\* velocity = (cos(angle), sin(angle)) * power.  For a drag along an axis
\* (the only drags drawn) hypot is the absolute value of the nonzero
\* component and (cos, sin) is its sign on that axis; atan2(0, 0) = 0.
launchVelocity(ddx, ddy) ==
    LET hypot == Abs(ddx) + Abs(ddy)
        power == Min((hypot * UnitsPerPixel)
                        \div (PLAYER_LAUNCH_POWER_DIVISOR * scale),
                     Px(PLAYER_MAX_LAUNCH_POWER * scale))
        cos == IF ddx = 0 /\ ddy = 0 THEN 1 ELSE Sgn(ddx)
        sin == Sgn(ddy)
    IN  [dx |-> cos * power, dy |-> sin * power]

(* ------------------------------- handlers ----------------------------- *)
\* Mutation: init() does not cancel the pending frame request.
initBody_noCancel(m) ==
    [m EXCEPT !.game = initGame,
              !.gameState = "START",
              !.rafQueue = requestAnimationFrame(m.rafQueue)]

\* init(): the restart button, or a resize to the same viewport
initBody(m) ==
    LET m1 == [m EXCEPT !.game = initGame,
                        !.gameState = "START",
                        !.rafQueue = cancelAnimationFrame(m.rafQueue)]
    IN  [m1 EXCEPT !.rafQueue = requestAnimationFrame(m1.rafQueue)]

init ==
    /\ Becomes(initBody(Machine))
    /\ UNCHANGED <<isDragging, dragStart>>

\* The draws of a startLevel() are read only by a tick that completes the
\* level; a tick adds at most 1 + STAR_SCORE per star to the score.
LevelDraws(m) ==
    IF /\ m.gameState = "PLAYING"
       /\ reachedRequiredScore(
            m.game.score + 1 + STAR_SCORE * (Len(m.game.collectableStars) + 1),
            m.game.currentLevel)
    THEN PlanetDraws(NumPlanets(m.game.currentLevel + 1)) \X CometDraws
    ELSE {<<<<>>, <<>>>>}

\* the requestAnimationFrame callback
gameLoopStep ==
    /\ rafQueue # <<>>
    /\ \E sd \in StarDraws(game), ld \in LevelDraws(Machine) :
          Becomes(gameLoopBody([Machine EXCEPT !.rafQueue = Tail(rafQueue)],
                               [star |-> sd, planets |-> ld[1], comet |-> ld[2]]))
    /\ UNCHANGED <<isDragging, dragStart>>

\* the callback in the first levels: ticks run up to MaxScore
gameLoop ==
    /\ gameState = "PLAYING" =>
          (game.score < MaxScore /\ Len(timers) < MaxTimers)
    /\ gameLoopStep

\* the callback in the levels with comets: ticks run from COMET_START_LEVEL
\* up to MaxLevel
gameLoopLate ==
    /\ gameState = "PLAYING" =>
          /\ game.currentLevel >= COMET_START_LEVEL
          /\ game.currentLevel < MaxLevel
          /\ Len(timers) < MaxTimers
    /\ gameLoopStep

\* mousedown / touchstart
handleMouseDown ==
    \E pt \in MouseDownPoints, pd \in PlanetDraws(NumPlanets(game.currentLevel)) :
        IF gameState # "PLAYING"
        THEN /\ Becomes(IF gameState \in {"START", "LEVEL_TRANSITION"}
                        THEN startGame(Machine, pd) ELSE Machine)
             /\ UNCHANGED <<isDragging, dragStart>>
        ELSE /\ isDragging' = TRUE
             /\ dragStart' = pt
             /\ timerOutcome' = "none"
             /\ UNCHANGED <<game, gameState, timers, rafQueue, assetVars>>

\* mouseup / touchend
handleMouseUp ==
    \E pt \in MouseUpPoints :
        IF ~isDragging
        THEN Becomes(Machine) /\ UNCHANGED <<isDragging, dragStart>>
        ELSE LET v == launchVelocity(pt[1] - dragStart[1], pt[2] - dragStart[2])
             IN  /\ isDragging' = FALSE
                 /\ game' = [game EXCEPT !.player.isMoving = TRUE,
                                         !.player.dx = v.dx,
                                         !.player.dy = v.dy]
                 /\ timerOutcome' = "none"
                 /\ UNCHANGED <<gameState, dragStart, timers, rafQueue, assetVars>>

\* keydown
handleKeyDown ==
    \E pd \in PlanetDraws(NumPlanets(game.currentLevel)) :
        /\ Becomes(IF gameState \in {"START", "LEVEL_TRANSITION"}
                   THEN startGame(Machine, pd) ELSE Machine)
        /\ UNCHANGED <<isDragging, dragStart>>

\* Mutation: the callback sets PLAYING whatever the state is.
timerCallback_unguarded ==
    /\ timers # <<>>
    /\ timers' = Tail(timers)
    /\ gameState' = "PLAYING"
    /\ timerOutcome' = IF gameState = "LEVEL_TRANSITION" THEN "started" ELSE "ignored"
    /\ UNCHANGED <<game, isDragging, dragStart, rafQueue, assetVars>>

\* Mutation: the callback is stopped by GAME_OVER only.
timerCallback_unlessOver ==
    /\ timers # <<>>
    /\ timers' = Tail(timers)
    /\ gameState' = IF gameState # "GAME_OVER" THEN "PLAYING" ELSE gameState
    /\ timerOutcome' = IF gameState = "LEVEL_TRANSITION" THEN "started" ELSE "ignored"
    /\ UNCHANGED <<game, isDragging, dragStart, rafQueue, assetVars>>

\* the callback startLevel() hands to setTimeout
timerCallback ==
    /\ timers # <<>>
    /\ timers' = Tail(timers)
    /\ gameState' = IF gameState = "LEVEL_TRANSITION" THEN "PLAYING" ELSE gameState
    /\ timerOutcome' = IF gameState = "LEVEL_TRANSITION" THEN "started" ELSE "ignored"
    /\ UNCHANGED <<game, isDragging, dragStart, rafQueue, assetVars>>

(* ------------------------------ the assets ---------------------------- *)
CriticalKeys == {"playerShip", "background"}
NonCriticalKeys == {"comet", "planets", "star"}

\* assets.critical[key] or assets.nonCritical[key], as a list of sources
srcsOf(key) ==
    CASE key = "playerShip" -> <<"images/player.svg">>
      [] key = "background" -> <<"images/background.svg">>
      [] key = "comet" -> <<"images/comet.svg">>
      [] key = "planets" -> <<"images/planet1.svg", "images/planet2.svg",
                              "images/planet3.svg", "images/planet4.svg">>
      [] key = "star" -> <<"images/star.svg">>

\* every source of the asset list
allSrcs ==
    UNION { {srcsOf(k)[i] : i \in DOMAIN srcsOf(k)} :
               k \in CriticalKeys \cup NonCriticalKeys }

\* every image is in the images object and no load is under way
assetsLoaded ==
    /\ images = <<CriticalKeys \cup NonCriticalKeys>>
    /\ imageLoads = {}
    /\ assetState = [loaded |-> allSrcs, loading |-> {}, failed |-> {}]
    /\ initTimer = FALSE
    /\ failedLoads = 0

\* images[key] is there to be read
imagesHas(key) == images # <<>> /\ key \in images[1]

\* loadImage(src) for every source of a key; group says whose promise waits
\* for the image: loadCriticalAssets ("critical"), loadNonCriticalAssets
\* ("background") or the call gen of ensureNonCriticalAssetsLoaded ("lazy")
loadImagesOf(key, group, gen) ==
    { [src |-> srcsOf(key)[i], place |-> i, key |-> key, group |-> group,
       gen |-> gen, retryCount |-> 0, waiting |-> FALSE] : i \in DOMAIN srcsOf(key) }

\* the loads whose settling the promise that waits for load j waits for:
\* Promise.all over every key for loadCriticalAssets and
\* loadNonCriticalAssets, over the sources of one key for lazyLoadAsset
sameBatch(j) ==
    { k \in imageLoads :
         /\ k.group = j.group
         /\ j.group = "lazy" => (k.key = j.key /\ k.gen = j.gen) }

\* images once the promise that waited for load j has settled, by an image
\* or by a fallback image; the object that loadNonCriticalAssets assigns to
\* is the one the variable images holds
imagesAfter(j) ==
    CASE j.group = "critical" -> <<CriticalKeys>>
      [] j.group = "background" -> <<images[1] \cup NonCriticalKeys>>
      [] j.group = "lazy" -> <<images[1] \cup {j.key}>>

\* the loads that the settling of load j starts: loadNonCriticalAssets()
\* once loadCriticalAssets() has resolved
startedBy(j) ==
    IF sameBatch(j) = {j} /\ j.group = "critical"
    THEN UNION { loadImagesOf(k, "background", 0) : k \in NonCriticalKeys }
    ELSE {}

\* load j has settled
settle(j) ==
    /\ imageLoads' = (imageLoads \ {j}) \cup startedBy(j)
    /\ IF sameBatch(j) # {j}
       THEN UNCHANGED <<images, initTimer>>
       ELSE /\ images' = imagesAfter(j)
            /\ IF j.group = "critical"
               THEN initTimer' = TRUE
               ELSE UNCHANGED initTimer

\* img.onload; loads that have not failed are taken to finish in the order
\* they were started in: of the images of one key loaded for one promise in
\* the order of the list, of the loads of one source the earlier call first
imageOnload ==
    \E j \in imageLoads :
        /\ ~j.waiting
        /\ j.retryCount = 0 =>
              \A k \in imageLoads :
                  (k.key = j.key /\ k.retryCount = 0 /\ ~k.waiting)
                      => /\ (k.group = j.group /\ k.gen = j.gen) => j.place <= k.place
                         /\ k.src = j.src => j.gen <= k.gen
        /\ assetState' =
              [assetState EXCEPT
                  !.loaded = @ \cup {j.src},
                  !.loading = (@ \ {j.src}) \cup {k.src : k \in startedBy(j)}]
        /\ settle(j)
        /\ timerOutcome' = "none"
        /\ UNCHANGED <<game, gameState, isDragging, dragStart, timers, rafQueue,
                       failedLoads>>

\* Mutation: the last retry is not made.
imageOnerror_noLastRetry ==
    \E j \in imageLoads :
        /\ ~j.waiting
        /\ j.retryCount = 0 => failedLoads < MaxFailing
        /\ failedLoads' = IF j.retryCount = 0 THEN failedLoads + 1 ELSE failedLoads
        /\ IF j.retryCount < MAX_RETRIES - 1
           THEN /\ imageLoads' = (imageLoads \ {j}) \cup {[j EXCEPT !.waiting = TRUE]}
                /\ UNCHANGED <<images, assetState, initTimer>>
           ELSE /\ assetState' =
                     [assetState EXCEPT
                         !.failed = @ \cup {j.src},
                         !.loading = (@ \ {j.src}) \cup {k.src : k \in startedBy(j)}]
                /\ settle(j)
        /\ timerOutcome' = "none"
        /\ UNCHANGED <<game, gameState, isDragging, dragStart, timers, rafQueue>>

\* img.onerror; at most MaxFailing loads of a run fail
imageOnerror ==
    \E j \in imageLoads :
        /\ ~j.waiting
        /\ j.retryCount = 0 => failedLoads < MaxFailing
        /\ failedLoads' = IF j.retryCount = 0 THEN failedLoads + 1 ELSE failedLoads
        /\ IF j.retryCount < MAX_RETRIES
           THEN /\ imageLoads' = (imageLoads \ {j}) \cup {[j EXCEPT !.waiting = TRUE]}
                /\ UNCHANGED <<images, assetState, initTimer>>
           ELSE /\ assetState' =
                     [assetState EXCEPT
                         !.failed = @ \cup {j.src},
                         !.loading = (@ \ {j.src}) \cup {k.src : k \in startedBy(j)}]
                /\ settle(j)
        /\ timerOutcome' = "none"
        /\ UNCHANGED <<game, gameState, isDragging, dragStart, timers, rafQueue>>

\* the setTimeout callback of img.onerror: loadImage(src, retryCount + 1)
retryTimer ==
    \E j \in imageLoads :
        /\ j.waiting
        /\ imageLoads' = (imageLoads \ {j})
                            \cup {[j EXCEPT !.waiting = FALSE, !.retryCount = @ + 1]}
        /\ assetState' = [assetState EXCEPT !.loading = @ \cup {j.src}]
        /\ timerOutcome' = "none"
        /\ UNCHANGED <<game, gameState, isDragging, dragStart, timers, rafQueue,
                       images, initTimer, failedLoads>>

\* init() while images may still be loading. With images undefined,
\* ensureNonCriticalAssetsLoaded() throws and init() ends before it reaches
\* gameLoop(); else a lazyLoadAsset() is started for every key images lacks.
initWhileLoading ==
    IF images = <<>>
    THEN /\ MachineBecomes([Machine EXCEPT !.game = initGame, !.gameState = "START"])
         /\ UNCHANGED <<images, imageLoads, assetState>>
    ELSE LET gens == {0} \cup {j.gen : j \in imageLoads}
             gen == 1 + CHOOSE g \in gens : \A h \in gens : h <= g
             started == UNION { loadImagesOf(k, "lazy", gen) :
                                   k \in NonCriticalKeys \ images[1] }
             lazyCalls == {j.gen : j \in {k \in imageLoads : k.group = "lazy"}}
         IN  /\ started # {} => Cardinality(lazyCalls) < MaxLazyCalls
             /\ MachineBecomes(initBody(Machine))
             /\ imageLoads' = imageLoads \cup started
             /\ assetState' = [assetState EXCEPT
                                  !.loading = @ \cup {j.src : j \in started}]
             /\ UNCHANGED images

\* the setTimeout callback of loadImages().then
initTimerCallback ==
    /\ initTimer
    /\ initTimer' = FALSE
    /\ initWhileLoading
    /\ UNCHANGED <<isDragging, dragStart, failedLoads>>

\* the resize listener, for a resize to the same viewport
resizeListener ==
    /\ initWhileLoading
    /\ UNCHANGED <<isDragging, dragStart, initTimer, failedLoads>>

\* keydown while images may still be loading: without images.planets,
\* generatePlanetsForLevel() throws at images.planets.length, after startGame()
\* has set PLAYING and game.planets has been emptied
keydownListener ==
    IF gameState = "START" /\ ~imagesHas("planets")
    THEN /\ MachineBecomes([Machine EXCEPT !.gameState = "PLAYING",
                                           !.game.planets = <<>>])
         /\ UNCHANGED <<isDragging, dragStart, assetVars>>
    ELSE handleKeyDown

\* the page as the script has run: resizeCanvas() and loadImages() called,
\* no init() yet; gameState is still undefined
AssetInit ==
    /\ game = initGame
    /\ gameState = "undefined"
    /\ isDragging = FALSE
    /\ dragStart = <<>>
    /\ timers = <<>>
    /\ rafQueue = <<>>
    /\ images = <<>>
    /\ imageLoads = UNION { loadImagesOf(k, "critical", 0) : k \in CriticalKeys }
    /\ assetState = [loaded |-> {},
                     loading |-> {srcsOf(k)[1] : k \in CriticalKeys},
                     failed |-> {}]
    /\ initTimer = FALSE
    /\ failedLoads = 0
    /\ timerOutcome = "none"

AssetNext ==
    \/ imageOnload
    \/ imageOnerror
    \/ retryTimer
    \/ initTimerCallback
    \/ resizeListener
    \/ keydownListener

AssetSpec == AssetInit /\ [][AssetNext]_vars

(* ---------------------------- specification --------------------------- *)
\* the state init() leaves when the page has loaded
Init ==
    /\ game = initGame
    /\ gameState = "START"
    /\ isDragging = FALSE
    /\ dragStart = <<>>
    /\ timers = <<>>
    /\ rafQueue = <<TRUE>>
    /\ timerOutcome = "none"
    /\ assetsLoaded

Next ==
    \/ init
    \/ gameLoop
    \/ handleMouseDown
    \/ handleMouseUp
    \/ handleKeyDown
    \/ timerCallback

Spec == Init /\ [][Next]_vars

(* ------------------------------ properties ---------------------------- *)
\* The entities as update() has moved them, before spawnCollectableStars()
\* and checkCollisions() run: the positions the collision tests read.
afterMotion(g) == updatePlayer(updateComets(updatePlanets(g)))

\* centre distance < sum of radii, against any planet or comet
overlapsDanger(g) ==
    \/ \E i \in DOMAIN g.planets : areColliding(g.player, g.planets[i])
    \/ \E i \in DOMAIN g.comets : areColliding(g.player, g.comets[i])

\* the player's position is outside [0, canvasWidth] x [0, canvasHeight]
outOfBounds(g) ==
    g.player.x < 0 \/ g.player.x > W \/ g.player.y < 0 \/ g.player.y > H

\* C1: every tick run in PLAYING in which the player, after the entities
\* have moved, overlaps a planet or a comet ends in GAME_OVER, whatever the
\* score and the level are.
C1_OverlapEndsInGameOver ==
    [][(gameState = "PLAYING" /\ overlapsDanger(afterMotion(game)) /\ gameLoop)
          => gameState' = "GAME_OVER"]_vars

\* C2: every tick run in PLAYING in which the player's position after the
\* motion is outside the canvas ends in GAME_OVER, whatever the other
\* entities, the grid and the score are.
C2_OutOfBoundsEndsInGameOver ==
    [][(gameState = "PLAYING" /\ outOfBounds(afterMotion(game)) /\ gameLoop)
          => gameState' = "GAME_OVER"]_vars

\* the positions of all entities
positions(g) ==
    <<g.player.x, g.player.y,
      [i \in DOMAIN g.planets |-> <<g.planets[i].x, g.planets[i].y>>],
      [i \in DOMAIN g.comets |-> <<g.comets[i].x, g.comets[i].y>>],
      [i \in DOMAIN g.collectableStars |->
          <<g.collectableStars[i].x, g.collectableStars[i].y>>]>>

\* C3: from GAME_OVER every step of a pointer, key, frame or timer handler
\* leaves the state GAME_OVER and the score, the level and all entity
\* positions as they are; the only step that leaves GAME_OVER is init(),
\* and it goes to START.
C3_GameOverIsAbsorbing ==
    [][gameState = "GAME_OVER" =>
          \/ /\ gameState' = "GAME_OVER"
             /\ game'.score = game.score
             /\ game'.currentLevel = game.currentLevel
             /\ positions(game') = positions(game)
          \/ init /\ gameState' = "START"]_vars

\* GAME_OVER, the frame that stops the loop has run, and the handler that
\* ran last is a level-transition timer
C3_Witness ==
    gameState = "GAME_OVER" /\ rafQueue = <<>> /\ timerOutcome = "ignored"

\* The machine as checkCollisions() leaves it in a tick from the current
\* state: what checkLevelCompletion() is called on.
beforeLevelCheck(m, sd) ==
    checkCollisions([m EXCEPT
        !.game = spawnCollectableStars(afterMotion(m.game), sd)])

\* C4: at the level-completion check of every tick from a PLAYING state:
\* with score >= BASE_SCORE_THRESHOLD * SCORE_THRESHOLD_MULTIPLIER^(level-1)
\* the check adds exactly 1 to the level, sets LEVEL_TRANSITION and puts the
\* player at the spawn point at rest; with a lower score it leaves the level
\* and the state as they are.
C4_LevelCompletionCheck ==
    gameState = "PLAYING" =>
        \A sd \in StarDraws(game) :
            LET before == beforeLevelCheck(Machine, sd)
                level == before.game.currentLevel
                reached ==
                    before.game.score * Pow(MULTIPLIER_DEN, level - 1)
                        >= BASE_SCORE_THRESHOLD * Pow(MULTIPLIER_NUM, level - 1)
            IN  \A pd \in PlanetDraws(NumPlanets(level + 1)), cd \in CometDraws :
                    LET after == checkLevelCompletion(before, pd, cd)
                    IN  IF reached
                        THEN /\ after.game.currentLevel = level + 1
                             /\ after.gameState = "LEVEL_TRANSITION"
                             /\ after.game.player.x = Px(canvasWidth) \div 2
                             /\ after.game.player.y = Px(canvasHeight) \div 3
                             /\ after.game.player.dx = 0
                             /\ after.game.player.dy = 0
                             /\ after.game.player.isMoving = FALSE
                        ELSE /\ after.game.currentLevel = level
                             /\ after.gameState = before.gameState

\* a level has just been completed by a player in flight (its score is not
\* from stars alone): the tick's check has put it back at the spawn point
C4_Witness ==
    /\ gameState = "LEVEL_TRANSITION"
    /\ game.currentLevel = 2
    /\ game.score >= BASE_SCORE_THRESHOLD
    /\ game.player.x = SpawnX /\ game.player.y = SpawnY
    /\ ~game.player.isMoving
    /\ game.score % STAR_SCORE # 0

\* C5: a level-transition timer that fires while the state is not
\* LEVEL_TRANSITION changes nothing: the state, the score, the level and all
\* entity collections are as they were.
C5_TimerOutsideTransitionIsNoOp ==
    [][(gameState # "LEVEL_TRANSITION" /\ timerCallback)
          => (gameState' = gameState /\ game' = game)]_vars

\* a timer has fired in PLAYING, after an input ended its transition
C5_Witness ==
    gameState = "PLAYING" /\ timerOutcome = "ignored" /\ game.currentLevel = 2

\* C6: a level transition is never ended by the timer of an earlier
\* startLevel(): a timer that fires in LEVEL_TRANSITION is the one the
\* startLevel() that entered this transition has scheduled.
C6_StaleTimerNeverEndsTransition ==
    [][(gameState = "LEVEL_TRANSITION" /\ timerCallback) => Head(timers)]_vars

\* timers fire: a pending setTimeout callback is eventually run
FairSpec == Spec /\ WF_vars(timerCallback)

C9_ScoreAndLevelNeverDecrease ==
    [][\/ game'.score >= game.score /\ game'.currentLevel >= game.currentLevel
       \/ init /\ game'.score = 0 /\ game'.currentLevel = 1]_vars

\* init() has lowered the score and the level of a game that was in its
\* second level: the timer of that level's transition is still pending
C9_Witness ==
    /\ game.score = 0
    /\ game.currentLevel = 1
    /\ timers # <<>>
    /\ timerOutcome = "none"

LateInit ==
    /\ \E pd \in PlanetDraws(NumPlanets(COMET_START_LEVEL)), cd \in CometDraws :
          game = generateComet(
                    generatePlanetsForLevel(
                        [initGame EXCEPT !.currentLevel = COMET_START_LEVEL,
                                         !.score = 2245], pd), cd)
    /\ gameState = "PLAYING"
    /\ isDragging = FALSE
    /\ dragStart = <<>>
    /\ timers = <<>>
    /\ rafQueue = <<TRUE>>
    /\ timerOutcome = "none"
    /\ assetsLoaded

LateNext ==
    \/ init
    \/ gameLoopLate
    \/ handleMouseDown
    \/ handleMouseUp
    \/ handleKeyDown
    \/ timerCallback

LateSpec == LateInit /\ [][LateNext]_vars

\* the planets and comets as a startLevel() creates them
createdPlanets ==
    {[x |-> W \div 2, y |-> H \div 2, radius |-> Px(CENTRAL_PLANET_RADIUS * scale),
      dx |-> CentralDrift.dx, dy |-> CentralDrift.dy]}
        \cup {createRandomPlanet(u) : u \in {FarPlanet, HazardPlanet}}
createdComets ==
    {[x |-> cd.x, y |-> cd.y, dx |-> cd.dx, dy |-> cd.dy,
      radius |-> Px(COMET_RADIUS * scale)] : cd \in CometDraws}

\* C12: a step that starts a level (the level grows) leaves in the planet
\* list and in the comet list only what this startLevel() has created: no
\* planet and no comet that was there before the call.
C12_ListsRebuiltAtLevelStart ==
    [][game'.currentLevel = game.currentLevel + 1 =>
          /\ \A i \in DOMAIN game'.planets : game'.planets[i] \in createdPlanets
          /\ \A i \in DOMAIN game'.comets : game'.comets[i] \in createdComets]_vars

\* C13: the comet list never holds more than
\* max(0, currentLevel - COMET_START_LEVEL + 1) comets, so none below
\* COMET_START_LEVEL, and no step adds more than one comet.
C13_CometsFromStartLevel ==
    [][/\ Len(game.comets) <= Max(0, game.currentLevel - COMET_START_LEVEL + 1)
       /\ Len(game'.comets) <= Max(0, game'.currentLevel - COMET_START_LEVEL + 1)
       /\ Len(game'.comets) <= Len(game.comets) + 1]_vars

\* level 4 has been started while the comet of level 3 was still flying:
\* the list holds two comets
C13_Witness ==
    /\ game.currentLevel = COMET_START_LEVEL + 1
    /\ gameState = "LEVEL_TRANSITION"
    /\ Len(game.comets) = 2

\* The pickup scan of the tick that runs from the current state when
\* spawnCollectableStars() draws sd: the game the scan reads, and the
\* indices of the stars that overlap the player in it.
atPickupScan(sd) == spawnCollectableStars(afterMotion(game), sd)
overlappingStars(g) ==
    {i \in DOMAIN g.collectableStars :
        areColliding(g.player, g.collectableStars[i])}

\* exactly one star overlaps the player at the scan of a PLAYING tick, and
\* the tick has no fatal hit
oneStarPickup(sd) ==
    /\ gameState = "PLAYING"
    /\ Cardinality(overlappingStars(atPickupScan(sd))) = 1
    /\ beforeLevelCheck(Machine, sd).gameState # "GAME_OVER"

\* C14, as stated: a tick in which the player overlaps exactly one
\* collectable star, without a fatal hit, raises the score by exactly
\* STAR_SCORE and removes exactly one star.
C14_PickupScoresExactlyStarScore ==
    \A sd \in StarDraws(game), ld \in LevelDraws(Machine) :
        oneStarPickup(sd) =>
            LET after == update(Machine, [star |-> sd, planets |-> ld[1],
                                          comet |-> ld[2]]).game
            IN  /\ after.score = game.score + STAR_SCORE
                /\ Len(after.collectableStars)
                      = Len(atPickupScan(sd).collectableStars) - 1

\* C14, amended: such a tick raises the score by STAR_SCORE, and by 1 more
\* when the player's isMoving flag is set (the point updatePlayer() gives
\* for the tick), and removes the overlapping star and no other.
C14_PickupScoresStarScorePlusMotion ==
    \A sd \in StarDraws(game), ld \in LevelDraws(Machine) :
        oneStarPickup(sd) =>
            LET scan == atPickupScan(sd)
                star == CHOOSE i \in overlappingStars(scan) : TRUE
                after == update(Machine, [star |-> sd, planets |-> ld[1],
                                          comet |-> ld[2]]).game
            IN  /\ after.score = game.score + STAR_SCORE
                                   + (IF game.player.isMoving THEN 1 ELSE 0)
                /\ after.collectableStars = RemoveAt(scan.collectableStars, star)

\* a player in flight is about to reach a star that lies on its way
C14_Witness ==
    /\ game.player.isMoving
    /\ game.collectableStars # <<>>
    /\ oneStarPickup(<<>>)

\* C15: a PLAYING tick with the player's isMoving flag not set leaves the
\* player's position and velocity as they are, the velocity being zero, and
\* raises the score only by STAR_SCORE per star it removes.
C15_RestingPlayerStaysPut ==
    (gameState = "PLAYING" /\ ~game.player.isMoving) =>
        /\ game.player.dx = 0
        /\ game.player.dy = 0
        /\ updatePlayer(game) = game
        /\ \A sd \in StarDraws(game), ld \in LevelDraws(Machine) :
              LET after == update(Machine, [star |-> sd, planets |-> ld[1],
                                            comet |-> ld[2]]).game
                  removed == Len(atPickupScan(sd).collectableStars)
                                - Len(after.collectableStars)
              IN  /\ after.player.x = game.player.x
                  /\ after.player.y = game.player.y
                  /\ after.player.dx = 0
                  /\ after.player.dy = 0
                  /\ after.score = game.score + STAR_SCORE * removed

\* ticks have run on a player that was never launched: it is at the spawn
\* point and has its score from stars alone
C15_Witness ==
    /\ gameState = "PLAYING"
    /\ ~game.player.isMoving
    /\ game.player.x = SpawnX /\ game.player.y = SpawnY
    /\ game.score = 3 * STAR_SCORE

(* ----------------------- the collision functions ---------------------- *)
\* Scenes for the collision functions: a tick of level 3 at the moment
\* update() calls checkCollisions(), with the player in flight at one of
\* GeomPlayers and one comet, entered at the top edge and drifting right,
\* at one of GeomOffsets from it that updateComets() has not removed.
GeomPlayers ==
    { <<SpawnX, SpawnY>>, <<W - 20, SpawnY>>, <<W + 4, SpawnY>>, <<40, 60>> }
GeomOffsets ==
    LET d == {-200, -120, -60, 0, 60, 80, 120, 200} IN d \X d

GeomInit ==
    /\ \E p \in GeomPlayers, o \in GeomOffsets :
          LET comet == [x |-> p[1] + o[1], y |-> p[2] + o[2],
                        dx |-> 4, dy |-> 4, radius |-> Px(COMET_RADIUS * scale)]
              g == generatePlanetsForLevel(
                      [initGame EXCEPT !.currentLevel = COMET_START_LEVEL,
                                       !.score = 1500],
                      [i \in 1 .. NumPlanets(COMET_START_LEVEL) |-> FarPlanet])
          IN  /\ ~isOffScreen(comet, W, H)
              /\ game = [g EXCEPT !.comets = <<comet>>,
                                  !.player.x = p[1], !.player.y = p[2],
                                  !.player.dx = 6, !.player.isMoving = TRUE]
    /\ gameState = "PLAYING"
    /\ isDragging = FALSE
    /\ dragStart = <<>>
    /\ timers = <<>>
    /\ rafQueue = <<>>
    /\ timerOutcome = "none"
    /\ assetsLoaded

\* checkCollisions() applied to the scene
checkCollisionsStep ==
    /\ gameState = "PLAYING"
    /\ Becomes(checkCollisions(Machine))
    /\ UNCHANGED <<isDragging, dragStart>>

GeomSpec == GeomInit /\ [][checkCollisionsStep]_vars

\* the bounding squares (position +/- radius) of two entities overlap
squaresOverlap(e, f) ==
    /\ e.x - e.radius < f.x + f.radius /\ f.x - f.radius < e.x + e.radius
    /\ e.y - e.radius < f.y + f.radius /\ f.y - f.radius < e.y + e.radius

\* C16: once updateSpatialGrid() has inserted every entity, for the player
\* and for every other entity E as the query, every inserted entity F whose
\* bounding square overlaps that of E is in getNearbyEntities(E).
C16_GridSoundness ==
    LET grid == updateSpatialGrid(game)
        queries == {game.player} \cup {Deref(game, ref) : ref \in Refs(game)}
    IN  \A e \in queries, ref \in Refs(game) :
            squaresOverlap(e, Deref(game, ref))
                => ref \in getNearbyEntities(grid, e)

\* C17: for the player and every entity of the scene, areCollidingOptimized
\* gives the verdict of areColliding, and a squared centre distance below
\* the squared radius sum has both axis distances below the radius sum.
C17_PrefilterKeepsVerdict ==
    \A ref \in Refs(game) :
        LET f == Deref(game, ref)
            sum == game.player.radius + f.radius
        IN  /\ areCollidingOptimized(game.player, f) = areColliding(game.player, f)
            /\ getDistanceSquared(game.player, f) < sum * sum =>
                  /\ Abs(game.player.x - f.x) < sum
                  /\ Abs(game.player.y - f.y) < sum

\* checkCollisions() has ended the game of a player inside the canvas for
\* a comet whose circle it overlaps off the axes
C17_Witness ==
    /\ gameState = "GAME_OVER"
    /\ ~outOfBounds(game)
    /\ areColliding(game.player, game.comets[1])
    /\ game.player.x # game.comets[1].x
    /\ game.player.y # game.comets[1].y

(* --------------------------- the difficulty --------------------------- *)
\* highest level of the scenes of LevelSpec
MaxCheckedLevel == 12

\* the least whole score that is >= BASE_SCORE_THRESHOLD *
\* Math.pow(SCORE_THRESHOLD_MULTIPLIER, level - 1)
leastRequiredScore(level) ==
    (BASE_SCORE_THRESHOLD * Pow(MULTIPLIER_NUM, level - 1)
        + Pow(MULTIPLIER_DEN, level - 1) - 1) \div Pow(MULTIPLIER_DEN, level - 1)

\* Scenes for the level check: a tick of a level up to MaxCheckedLevel at
\* the moment update() calls checkLevelCompletion(), with the planets of
\* the level, the comets flown off, and a score next to the level's
\* required score.
LevelInit ==
    /\ \E level \in 1 .. MaxCheckedLevel, over \in {-1, 0, 1, STAR_SCORE} :
          game = generatePlanetsForLevel(
                    [initGame EXCEPT !.currentLevel = level,
                                     !.score = leastRequiredScore(level) + over],
                    [i \in 1 .. NumPlanets(level) |-> FarPlanet])
    /\ gameState = "PLAYING"
    /\ isDragging = FALSE
    /\ dragStart = <<>>
    /\ timers = <<>>
    /\ rafQueue = <<>>
    /\ timerOutcome = "none"
    /\ assetsLoaded

\* checkLevelCompletion() applied to the scene
checkLevelCompletionStep ==
    /\ gameState = "PLAYING"
    /\ \E pd \in PlanetDraws(NumPlanets(game.currentLevel + 1)), cd \in CometDraws :
          Becomes(checkLevelCompletion(Machine, pd, cd))
    /\ UNCHANGED <<isDragging, dragStart>>

LevelSpec == LevelInit /\ [][checkLevelCompletionStep]_vars

\* C18: at every level L of the scenes, a score that reaches the required
\* score of level L + 1 reaches that of level L, the least whole score that
\* reaches the required score of level L does not reach that of level L + 1,
\* and the level start that checkLevelCompletion() runs generates at least as
\* many planets as level L has.
C18_DifficultyIsMonotonic ==
    gameState = "PLAYING" =>
        LET L == game.currentLevel
        IN  /\ reachedRequiredScore(game.score, L + 1)
                  => reachedRequiredScore(game.score, L)
            /\ reachedRequiredScore(leastRequiredScore(L), L)
            /\ ~reachedRequiredScore(leastRequiredScore(L), L + 1)
            /\ NumPlanets(L + 1) >= NumPlanets(L)
            /\ \A pd \in PlanetDraws(NumPlanets(L + 1)), cd \in CometDraws :
                  Len(checkLevelCompletion(Machine, pd, cd).game.planets)
                      >= Len(game.planets)

\* checkLevelCompletion() has started level MaxCheckedLevel + 1 with more
\* planets than level MaxCheckedLevel has
C18_Witness ==
    /\ gameState = "LEVEL_TRANSITION"
    /\ game.currentLevel = MaxCheckedLevel + 1
    /\ game.score = leastRequiredScore(MaxCheckedLevel)
    /\ Len(game.planets) = 1 + NumPlanets(MaxCheckedLevel + 1)
    /\ Len(game.planets) > 1 + NumPlanets(MaxCheckedLevel)

\* C19: whenever a step takes the game from START to PLAYING, the images
\* object already holds the planet image list, the comet image and the
\* star image.
C19_ImagesPresentAtStart ==
    [][(gameState = "START" /\ gameState' = "PLAYING")
          => (imagesHas("planets") /\ imagesHas("comet") /\ imagesHas("star"))]_vars

\* C20: in every reachable state at most one requestAnimationFrame(gameLoop)
\* callback is pending, and it is the one animationFrameId names.
C20_AtMostOneGameLoop ==
    /\ Len(rafQueue) <= 1
    /\ \A i \in DOMAIN rafQueue : rafQueue[i]

\* the tick that ended a launched game has requested its next frame, which
\* an init() now has to cancel
C20_Witness ==
    /\ gameState = "GAME_OVER"
    /\ Len(rafQueue) = 1
    /\ game.player.isMoving

(* ------------------------- the rest of the tick ----------------------- *)
\* C21: in every tick from a PLAYING state in which checkCollisions() calls
\* gameOver(), nothing after the detection takes effect: no star is removed,
\* the score is what the motion left, and update() returns the machine as
\* gameOver() left it (the level is not raised, startLevel() is not called).
C21_FatalHitEndsTheTick ==
    gameState = "PLAYING" =>
        \A sd \in StarDraws(game) :
            LET scanned == spawnCollectableStars(afterMotion(game), sd)
                before == beforeLevelCheck(Machine, sd)
            IN  before.gameState = "GAME_OVER" =>
                    /\ before.game.collectableStars = scanned.collectableStars
                    /\ before.game.score = scanned.score
                    /\ \A ld \in LevelDraws(Machine) :
                          LET after == update(Machine, [star |-> sd, planets |-> ld[1],
                                                        comet |-> ld[2]])
                          IN  /\ after.gameState = "GAME_OVER"
                              /\ after.game = before.game
                              /\ after.timers = timers

(* ---------------------------- the pickup scan ------------------------- *)
\* most stars of a scene of PickupSpec
MaxPickups == 3

\* where a star of a scene lies, from the player: on it, one lattice step
\* inside the radius sum, at the radius sum, and off the axes with the
\* bounding squares overlapping and the circles not
PickupOffsets ==
    LET sum == Px(PLAYER_RADIUS * scale) + Px(STAR_RADIUS * scale)
    IN  { <<0, 0>>, <<sum - 1, 0>>, <<sum, 0>>, <<sum - 20, sum - 20>> }

\* Scenes for the pickup scan: a tick of level 1 at the moment update() calls
\* checkCollisions(), the player in flight inside the canvas and away from
\* the planets, and up to MaxPickups stars in any order.
PickupInit ==
    /\ \E p \in {<<SpawnX, SpawnY>>, <<W - 20, SpawnY>>}, n \in 0 .. MaxPickups :
          \E offs \in [1 .. n -> PickupOffsets] :
              LET g == generatePlanetsForLevel(initGame,
                          [i \in 1 .. NumPlanets(1) |-> FarPlanet])
              IN  game = [g EXCEPT
                            !.collectableStars =
                                [i \in 1 .. n |->
                                    [x |-> p[1] - offs[i][1], y |-> p[2] + offs[i][2],
                                     radius |-> Px(STAR_RADIUS * scale)]],
                            !.player.x = p[1], !.player.y = p[2],
                            !.player.dx = 6, !.player.isMoving = TRUE]
    /\ gameState = "PLAYING"
    /\ isDragging = FALSE
    /\ dragStart = <<>>
    /\ timers = <<>>
    /\ rafQueue = <<>>
    /\ timerOutcome = "none"
    /\ assetsLoaded

PickupSpec == PickupInit /\ [][checkCollisionsStep]_vars

\* C22: in every tick without a fatal hit the scan of checkCollisions()
\* leaves exactly the stars the player does not overlap, in their order, and
\* adds STAR_SCORE once for every star it overlaps.
C22_PickupScanIsExact ==
    gameState = "PLAYING" =>
        LET after == checkCollisions(Machine)
            hit == {i \in DOMAIN game.collectableStars :
                        areColliding(game.player, game.collectableStars[i])}
        IN  after.gameState = "PLAYING" =>
                /\ after.game.collectableStars =
                      SelectSeq(game.collectableStars,
                                LAMBDA s : ~areColliding(game.player, s))
                /\ after.game.score = game.score + STAR_SCORE * Cardinality(hit)

\* the scan has taken two stars of three in one tick
C22_Witness ==
    /\ gameState = "PLAYING"
    /\ game.score = 2 * STAR_SCORE
    /\ Len(game.collectableStars) = 1
    /\ ~areColliding(game.player, game.collectableStars[1])

(* ------------------------------ the comets ---------------------------- *)
\* most comets of a scene of CometSpec
MaxComets == 3

\* comets of a scene, all flying left or up: one step short of leaving on
\* the left, one step short of x = -radius, in the middle of the canvas, and
\* one step short of leaving at the top
CometSamples ==
    LET r == Px(COMET_RADIUS * scale)
    IN  { [x |-> 6 - r, y |-> SpawnY, dx |-> -7, dy |-> 0, radius |-> r],
          [x |-> 7 - r, y |-> SpawnY, dx |-> -7, dy |-> 0, radius |-> r],
          [x |-> SpawnX, y |-> Px(100), dx |-> -7, dy |-> 0, radius |-> r],
          [x |-> Px(100), y |-> 2 - r, dx |-> 0, dy |-> -Px(1), radius |-> r] }

\* Scenes for updateComets(): the start of a tick of the level that has n
\* comets when none has left, with the player at rest at the spawn point.
CometInit ==
    /\ \E n \in 1 .. MaxComets :
          \E cs \in [1 .. n -> CometSamples] :
              LET level == COMET_START_LEVEL + n - 1
              IN  game = [generatePlanetsForLevel(
                             [initGame EXCEPT !.currentLevel = level,
                                              !.score = leastRequiredScore(level - 1)],
                             [i \in 1 .. NumPlanets(level) |-> FarPlanet])
                          EXCEPT !.comets = cs]
    /\ gameState = "PLAYING"
    /\ isDragging = FALSE
    /\ dragStart = <<>>
    /\ timers = <<>>
    /\ rafQueue = <<>>
    /\ timerOutcome = "none"
    /\ assetsLoaded

\* updateComets() applied to the scene
updateCometsStep ==
    /\ gameState = "PLAYING"
    /\ game.comets # <<>>
    /\ Becomes([Machine EXCEPT !.game = updateComets(game)])
    /\ UNCHANGED <<isDragging, dragStart>>

CometSpec == CometInit /\ [][updateCometsStep]_vars

\* a comet moved by its velocity
advanced(c) == [c EXCEPT !.x = @ + c.dx, !.y = @ + c.dy]

\* C23: updateComets() leaves the comets of the list, each moved once by its
\* velocity, without those whose new position is off-screen, and with a
\* comet at exactly x = -radius kept.
C23_EveryCometAdvancedAndCulled ==
    gameState = "PLAYING" =>
        updateComets(game).comets =
            SelectSeq([i \in DOMAIN game.comets |-> advanced(game.comets[i])],
                      LAMBDA c : ~(\/ c.x < -c.radius \/ c.x > W + c.radius
                                   \/ c.y < -c.radius \/ c.y > H + c.radius))

(* --------------------------- the danger check ------------------------- *)
\* C24: once updateSpatialGrid() has run, for the planet list and for the
\* comet list checkPlayerCollisionWithDangerousEntitiesOptimized reports a
\* hit exactly when checkPlayerCollisionWithDangerousEntities does.
C24_GridCheckEqualsPlainScan ==
    LET grid == updateSpatialGrid(game)
    IN  \A list \in {"planets", "comets"} :
            checkPlayerCollisionWithDangerousEntitiesOptimized(game, grid, list)
                <=> checkPlayerCollisionWithDangerousEntities(game, list)

(* ------------------------------ the planets --------------------------- *)
\* planets of a scene of PlanetSpec: one created inside the left wall margin
\* (x < radius), one inside the band on its way to the left wall, one at rest
\* inside the band
PlanetSamples ==
    { FarPlanet,
      [x |-> Px(22), y |-> Px(500), radius |-> Px(20), dx |-> -1, dy |-> 0],
      HazardPlanet }

\* Scenes for updatePlanets(): level 1 as generatePlanetsForLevel() leaves
\* it, with every planet but the central one drawn from PlanetSamples.
PlanetInit ==
    /\ \E pd \in [1 .. NumPlanets(1) -> PlanetSamples] :
          game = generatePlanetsForLevel(initGame, pd)
    /\ gameState = "PLAYING"
    /\ isDragging = FALSE
    /\ dragStart = <<>>
    /\ timers = <<>>
    /\ rafQueue = <<>>
    /\ timerOutcome = "none"
    /\ assetsLoaded

\* updatePlanets() applied to the scene
updatePlanetsStep ==
    /\ gameState = "PLAYING"
    /\ Becomes([Machine EXCEPT !.game = updatePlanets(game)])
    /\ UNCHANGED <<isDragging, dragStart>>

\* every tick comes: requestAnimationFrame calls gameLoop() again
PlanetSpec == PlanetInit /\ [][updatePlanetsStep]_vars /\ WF_vars(updatePlanetsStep)

\* the centre of planet i is outside [radius, bound - radius] on an axis
outsideBand(i) ==
    LET p == game.planets[i]
    IN  \/ p.x < p.radius \/ p.x > W - p.radius
        \/ p.y < p.radius \/ p.y > H - p.radius

\* C25: a planet whose centre is outside the wall band is inside the band
\* again some ticks later.
C25_PlanetReturnsToBand ==
    \A i \in 1 .. 1 + NumPlanets(1) : outsideBand(i) ~> ~outsideBand(i)

(* ------------------------------ loadImage ----------------------------- *)
\* what tells the calls of loadImage() apart
loadId(j) == <<j.src, j.group, j.gen>>

\* C26: a call of loadImage() is never beyond its attempt MAX_RETRIES + 1;
\* in the step in which it settles its source leaves assetState.loading, and
\* it settles either by an image, with its source put into
\* assetState.loaded, or by a rejection, which comes at the attempt
\* MAX_RETRIES + 1 only and puts its source into assetState.failed; until
\* then it stays under way, its attempt number growing by one at most.
C26_RetriesAreBounded ==
    [][\A j \in imageLoads :
          /\ j.retryCount <= MAX_RETRIES
          /\ LET next == {k \in imageLoads' : loadId(k) = loadId(j)}
             IN  IF next = {}
                 THEN /\ ~j.waiting
                      /\ j.src \notin assetState'.loading
                      /\ \/ /\ j.src \in assetState'.loaded
                            /\ assetState'.failed = assetState.failed
                         \/ /\ j.retryCount = MAX_RETRIES
                            /\ j.src \in assetState'.failed
                            /\ assetState'.loaded = assetState.loaded
                 ELSE \A k \in next :
                         k.retryCount \in {j.retryCount, j.retryCount + 1}]_vars

\* a load has been rejected after its last attempt; the source is nowhere
\* but in assetState.failed
C26_Witness ==
    \E src \in assetState.failed :
        /\ src \notin assetState.loading
        /\ src \notin assetState.loaded
        /\ \A j \in imageLoads : j.src # src

(* --------------------------- the player at rest ----------------------- *)
\* C27: in START and in LEVEL_TRANSITION the player is at the spawn point
\* with velocity zero and isMoving not set.
C27_PlayerRestsOutsidePlay ==
    gameState \in {"START", "LEVEL_TRANSITION"} =>
        /\ game.player.x = Px(canvasWidth) \div 2
        /\ game.player.y = Px(canvasHeight) \div 3
        /\ game.player.dx = 0
        /\ game.player.dy = 0
        /\ ~game.player.isMoving

(* ------------------------------ the spawn ----------------------------- *)
\* what createRandomPlanet() may return, for SpawnSpec: the two planets of
\* PlanetDraws, a planet whose centre is 30 px from the spawn point, and one
\* that touches the player's circle there without overlapping it
SpawnSamples ==
    { FarPlanet, HazardPlanet,
      [x |-> SpawnX + Px(30), y |-> SpawnY, radius |-> Px(20), dx |-> 0, dy |-> 0],
      [x |-> SpawnX, y |-> SpawnY - Px(40), radius |-> Px(20), dx |-> 0, dy |-> 0] }

\* a key or pointer input in START: startGame()
startGameStep ==
    /\ gameState = "START"
    /\ \E pd \in [1 .. NumPlanets(game.currentLevel) -> SpawnSamples] :
          Becomes(startGame(Machine, pd))
    /\ UNCHANGED <<isDragging, dragStart>>

\* the game from the state init() leaves, with the planets of level 1 drawn
\* from SpawnSamples and no pointer input
SpawnSpec == Init /\ [][startGameStep \/ gameLoop]_vars

\* some planet of g overlaps the player
overlapsPlanet(g) ==
    \E i \in DOMAIN g.planets : areColliding(g.player, g.planets[i])

\* C28: whatever createRandomPlanet() returns, the player overlaps no planet
\* when startGame() has generated the planets of the level in START, nor
\* when a startLevel() of the next level has.
C28_NoPlanetOnTheSpawnPoint ==
    /\ gameState = "START" =>
          \A pd \in [1 .. NumPlanets(game.currentLevel) -> SpawnSamples] :
              ~overlapsPlanet(startGame(Machine, pd).game)
    /\ gameState = "PLAYING" =>
          \A pd \in [1 .. NumPlanets(game.currentLevel + 1) -> SpawnSamples],
             cd \in CometDraws :
              ~overlapsPlanet(
                  startLevel([Machine EXCEPT !.game.currentLevel = @ + 1], pd, cd).game)

(* ------------------------------ the score ----------------------------- *)
\* the stars the pickup scan of a tick removes: those in the collection when
\* the scan starts (after the star spawn of the tick) less those left when
\* checkCollisions() returns
starsRemoved(sd) ==
    Len(atPickupScan(sd).collectableStars)
        - Len(beforeLevelCheck(Machine, sd).game.collectableStars)

\* the score a PLAYING tick must end with
tickScore(sd) ==
    game.score + (IF game.player.isMoving THEN 1 ELSE 0)
               + STAR_SCORE * starsRemoved(sd)

\* every PLAYING tick, whatever it draws, ends with tickScore
ticksScoreExactly ==
    gameState = "PLAYING" =>
        \A sd \in StarDraws(game), ld \in LevelDraws(Machine) :
            update(Machine, [star |-> sd, planets |-> ld[1],
                             comet |-> ld[2]]).game.score = tickScore(sd)

\* the step is a gameLoop() call in PLAYING
isPlayingTick ==
    /\ gameState = "PLAYING"
    /\ rafQueue # <<>>
    /\ \E sd \in StarDraws(game), ld \in LevelDraws(Machine) :
          MachineBecomes(gameLoopBody([Machine EXCEPT !.rafQueue = Tail(rafQueue)],
                                      [star |-> sd, planets |-> ld[1],
                                       comet |-> ld[2]]))

\* the step is init()
isReset ==
    /\ game' = initGame
    /\ gameState' = "START"

\* C29, as stated: a step changes the score only if it is a PLAYING tick,
\* and every PLAYING tick adds exactly m + STAR_SCORE * k, with m = 1 when
\* isMoving is set at the start of the tick and k the stars it removes.
C29_ScoreChangesOnlyInTicks ==
    /\ [][game'.score # game.score => isPlayingTick]_vars
    /\ []ticksScoreExactly

\* C29, amended: a step changes the score only if it is a PLAYING tick or
\* init(), which sets it to 0; every PLAYING tick adds exactly
\* m + STAR_SCORE * k.
C29_ScoreChangesInTicksOrReset ==
    /\ [][game'.score # game.score =>
             \/ isPlayingTick
             \/ isReset /\ game'.score = 0]_vars
    /\ []ticksScoreExactly

\* a player in flight with points of both kinds, about to pick up a star
C29_Witness ==
    /\ gameState = "PLAYING"
    /\ game.player.isMoving
    /\ game.score > STAR_SCORE
    /\ game.score % STAR_SCORE # 0
    /\ \E sd \in StarDraws(game) : starsRemoved(sd) >= 1

(* -------------------------- loading progress -------------------------- *)
\* getLoadingProgress(): total counts the keys of assets.critical and of
\* assets.nonCritical, loaded and failed count the sources in assetState;
\* progress is (loaded + failed) / total
getLoadingProgress ==
    [total  |-> Cardinality(CriticalKeys) + Cardinality(NonCriticalKeys),
     loaded |-> Cardinality(assetState.loaded),
     failed |-> Cardinality(assetState.failed)]

\* C30: the progress getLoadingProgress() reports is within [0, 1], that is
\* loaded + failed never exceeds total, and no source is both in
\* assetState.loaded and in assetState.failed.
C30_ProgressWithinBounds ==
    /\ getLoadingProgress.loaded + getLoadingProgress.failed
          <= getLoadingProgress.total
    /\ assetState.loaded \cap assetState.failed = {}

====
